---------------------------- MODULE Spec2Model ----------------------------
(***************************************************************************)
(* A model of src/bot.py: the Discord relay bot.  An inbound gateway       *)
(* message is filtered and routed (on_message), gated by the Flipt flag    *)
(* (is_bot_enabled), normalised and validated                              *)
(* (validate_and_prepare_message), relayed to the webhook                  *)
(* (send_to_webhook) and the reply is extracted and delivered in chunks    *)
(* (handle_webhook_response, send_chunked_response).                       *)
(*                                                                         *)
(* Python values are modelled as follows.                                  *)
(*   str            a TLA+ string (Len, \o and SubSeq act on characters)   *)
(*   Optional[x]    a sequence of length 0 (None) or 1                     *)
(*   decoded JSON   a tagged record: [t |-> "null"], [t |-> "bool", v],    *)
(*                  [t |-> "num", v], [t |-> "str", v], [t |-> "arr", v]   *)
(*                  with v a sequence of values, [t |-> "obj", v] with v   *)
(*                  the sequence of <<key, value>> pairs in document order *)
(* The user-visible notices are the source's, written in ASCII.            *)
(***************************************************************************)
EXTENDS Integers, Sequences, FiniteSets, TLC

(***************************************************************************)
(* Constants of the program.                                               *)
(***************************************************************************)
DISCORD_MESSAGE_LIMIT == 2000

SYSTEM_MESSAGES == {"Workflow started", "Workflow executed successfully"}

\* The bot's own user id (bot.user.id), as it appears in mention encodings.
BotId == "42"

(***************************************************************************)
(* Python's str methods, on characters.                                    *)
(***************************************************************************)
Whitespace == {" ", "\t", "\n"}

CharAt(s, i) == SubSeq(s, i, i)

\* s.startswith(p)
StartsWith(s, p) == Len(s) >= Len(p) /\ SubSeq(s, 1, Len(p)) = p

\* sub in s, for two strings
Contains(s, sub) ==
    \E i \in 1..(Len(s) - Len(sub) + 1) : SubSeq(s, i, i + Len(sub) - 1) = sub

\* s.replace(old, ""): the non-overlapping occurrences of old, left to right
RECURSIVE Remove(_, _)
Remove(s, old) ==
    IF Len(s) = 0 THEN ""
    ELSE IF StartsWith(s, old) THEN Remove(SubSeq(s, Len(old) + 1, Len(s)), old)
    ELSE CharAt(s, 1) \o Remove(SubSeq(s, 2, Len(s)), old)

RECURSIVE LStrip(_)
LStrip(s) ==
    IF Len(s) > 0 /\ CharAt(s, 1) \in Whitespace
    THEN LStrip(SubSeq(s, 2, Len(s))) ELSE s

RECURSIVE RStrip(_)
RStrip(s) ==
    IF Len(s) > 0 /\ CharAt(s, Len(s)) \in Whitespace
    THEN RStrip(SubSeq(s, 1, Len(s) - 1)) ELSE s

\* s.strip()
Strip(s) == RStrip(LStrip(s))

\* ' '.join(s.split()): the words of s, joined by single spaces
RECURSIVE JoinWords(_, _)
JoinWords(s, pendingSpace) ==
    IF Len(s) = 0 THEN ""
    ELSE IF CharAt(s, 1) \in Whitespace
         THEN JoinWords(SubSeq(s, 2, Len(s)), TRUE)
         ELSE (IF pendingSpace THEN " " ELSE "") \o CharAt(s, 1)
              \o JoinWords(SubSeq(s, 2, Len(s)), FALSE)

CollapseWhitespace(s) == JoinWords(LStrip(s), FALSE)

(***************************************************************************)
(* Decoded JSON values and Python's view of them.                          *)
(***************************************************************************)
JNull == [t |-> "null"]
JBool(b) == [t |-> "bool", v |-> b]
JNum(n) == [t |-> "num", v |-> n]
JStr(s) == [t |-> "str", v |-> s]
JArr(xs) == [t |-> "arr", v |-> xs]
JObj(kvs) == [t |-> "obj", v |-> kvs]

IsList(d) == d.t = "arr"
IsDict(d) == d.t = "obj"

\* key in data, for a dict
HasKey(d, key) == \E i \in 1..Len(d.v) : d.v[i][1] = key

\* data[key], for a dict that has the key
Lookup(d, key) == d.v[CHOOSE i \in 1..Len(d.v) : d.v[i][1] = key][2]

\* bool(value): None, False, 0, "", [] and {} are falsy
Truthy(d) ==
    CASE d.t = "null" -> FALSE
      [] d.t = "bool" -> d.v
      [] d.t = "num" -> d.v # 0
      [] d.t = "str" -> d.v # ""
      [] d.t = "arr" -> Len(d.v) > 0
      [] d.t = "obj" -> Len(d.v) > 0

\* repr(value): a string is quoted, the rest is as str(value)
RECURSIVE PyRepr(_)
RECURSIVE ReprItems(_, _)
RECURSIVE ReprPairs(_, _)
ReprItems(xs, i) ==
    IF i > Len(xs) THEN ""
    ELSE (IF i > 1 THEN ", " ELSE "") \o PyRepr(xs[i]) \o ReprItems(xs, i + 1)
ReprPairs(kvs, i) ==
    IF i > Len(kvs) THEN ""
    ELSE (IF i > 1 THEN ", " ELSE "") \o "'" \o kvs[i][1] \o "': "
         \o PyRepr(kvs[i][2]) \o ReprPairs(kvs, i + 1)
PyRepr(d) ==
    CASE d.t = "null" -> "None"
      [] d.t = "bool" -> (IF d.v THEN "True" ELSE "False")
      [] d.t = "num" -> ToString(d.v)
      [] d.t = "str" -> "'" \o d.v \o "'"
      [] d.t = "arr" -> "[" \o ReprItems(d.v, 1) \o "]"
      [] d.t = "obj" -> "{" \o ReprPairs(d.v, 1) \o "}"

\* str(value)
PyStr(d) == IF d.t = "str" THEN d.v ELSE PyRepr(d)

(***************************************************************************)
(* classify_attachment: the kind of an attachment from its declared        *)
(* content type (an Optional[str]).                                        *)
(***************************************************************************)
type_map == << <<"audio/", "audio">>, <<"image/", "image">>, <<"video/", "video">> >>

\* the detection with audio as the only kind known
DetectedType_audio_only(content_type) ==
    IF StartsWith(content_type, "audio/") THEN "audio" ELSE "file"

DetectedType(content_type) ==
    IF \E i \in 1..Len(type_map) : StartsWith(content_type, type_map[i][1])
    THEN type_map[CHOOSE i \in 1..Len(type_map) :
                    /\ StartsWith(content_type, type_map[i][1])
                    /\ \A j \in 1..(i - 1) : ~StartsWith(content_type, type_map[j][1])][2]
    ELSE "file"

classify_attachment(attachment) ==
    LET content_type == IF attachment.content_type = <<>> THEN ""
                        ELSE attachment.content_type[1]
    IN  [filename |-> attachment.filename,
         url |-> attachment.url,
         size |-> attachment.size,
         content_type |-> content_type,
         type |-> DetectedType(content_type)]

(***************************************************************************)
(* extract_response_text                                                   *)
(***************************************************************************)
response_keys == <<"response", "message", "output", "text", "reply">>

\* the loop over response_keys: the first key present with a truthy value
KeyHit(data, key) == HasKey(data, key) /\ Truthy(Lookup(data, key))

FirstHit(data) ==
    CHOOSE i \in 1..Len(response_keys) :
        /\ KeyHit(data, response_keys[i])
        /\ \A j \in 1..(i - 1) : ~KeyHit(data, response_keys[j])

ExtractOne(data) ==
    IF IsDict(data) /\ \E i \in 1..Len(response_keys) : KeyHit(data, response_keys[i])
    THEN PyStr(Lookup(data, response_keys[FirstHit(data)]))
    ELSE PyStr(data)

\* extract_response_text taking the last element of a list
extract_response_text_last(data) ==
    IF IsList(data)
    THEN IF Len(data.v) = 0 THEN "" ELSE ExtractOne(data.v[Len(data.v)])
    ELSE ExtractOne(data)

extract_response_text(data) ==
    IF IsList(data)
    THEN IF Len(data.v) = 0 THEN "" ELSE ExtractOne(data.v[1])
    ELSE ExtractOne(data)

(***************************************************************************)
(* clean_mention_from_message                                              *)
(***************************************************************************)
PlainMention == "<@" \o BotId \o ">"
NickMention == "<@!" \o BotId \o ">"

clean_mention_from_message(content) ==
    CollapseWhitespace(Strip(Remove(Strip(Remove(content, PlainMention)), NickMention)))

(***************************************************************************)
(* The outcome of one HTTP request, as the bot's code observes it: the     *)
(* request raised (exc names the exception class), or a response arrived   *)
(* with a status, whose body decodes as JSON (json, an Optional) and reads *)
(* as text (text, an Optional); when reading the body fails, exc names the *)
(* exception that response.json() or response.text() raises.               *)
(***************************************************************************)
Raised(exc) == [kind |-> "raise", status |-> 0, json |-> <<>>, text |-> <<>>, exc |-> exc]
Response(status, json, text, exc) ==
    [kind |-> "response", status |-> status, json |-> json, text |-> text, exc |-> exc]

\* aiohttp's exception classes: ClientConnectorError is a ClientError.
ClientErrors == {"ClientConnectorError", "ClientPayloadError", "ContentTypeError"}

(***************************************************************************)
(* is_bot_enabled, from the outcome of the GET to the value it returns     *)
(* (data.get("enabled", True) may be any JSON value).                      *)
(***************************************************************************)
\* is_bot_enabled failing closed on a timeout
is_bot_enabled_fail_closed(o) ==
    IF o.kind = "raise" THEN JBool(o.exc # "TimeoutError")
    ELSE IF o.status = 200 /\ o.json # <<>> /\ IsDict(o.json[1])
              /\ HasKey(o.json[1], "enabled")
         THEN Lookup(o.json[1], "enabled")
         ELSE JBool(TRUE)

is_bot_enabled(o) ==
    IF o.kind = "raise" THEN JBool(TRUE)
    ELSE IF o.status = 200
         THEN IF o.json = <<>> THEN JBool(TRUE)                \* json() raised
              ELSE IF ~IsDict(o.json[1]) THEN JBool(TRUE)      \* no .get: AttributeError
              ELSE IF HasKey(o.json[1], "enabled")
                   THEN Lookup(o.json[1], "enabled")
                   ELSE JBool(TRUE)
         ELSE JBool(TRUE)

(***************************************************************************)
(* send_to_webhook, from the outcome of the POST to the value it returns.  *)
(***************************************************************************)
ErrorDict(text) == JObj(<< <<"error", JStr(text)>> >>)

ExceptionResult(exc) ==
    IF exc = "ClientConnectorError" THEN ErrorDict("No se pudo conectar con el servidor")
    ELSE IF exc = "TimeoutError" THEN ErrorDict("El servidor tardo demasiado en responder")
    ELSE IF exc \in ClientErrors THEN ErrorDict("Error de red: " \o exc)
    ELSE ErrorDict("Error inesperado: " \o exc)

\* send_to_webhook without the test of the status
send_to_webhook_any_status(o) ==
    IF o.kind = "raise" THEN ExceptionResult(o.exc)
    ELSE IF o.json = <<>> THEN ExceptionResult(o.exc) ELSE o.json[1]

send_to_webhook(o) ==
    IF o.kind = "raise" THEN ExceptionResult(o.exc)
    ELSE IF o.status = 200
         THEN IF o.json = <<>> THEN ExceptionResult(o.exc) ELSE o.json[1]
         ELSE IF o.text = <<>> THEN ExceptionResult(o.exc)
              ELSE JObj(<< <<"error", JStr("Error del servidor: " \o ToString(o.status))>>,
                           <<"details", JStr(o.text[1])>> >>)

(***************************************************************************)
(* validate_and_prepare_message                                            *)
(***************************************************************************)
\* bot.user.mentioned_in(message), discord.py's: a broadcast mention counts.
mentioned_in(m) == m.mention_everyone \/ m.mentions_bot

default_text == [audio |-> "[Audio enviado]", image |-> "[Imagen enviada]",
                 video |-> "[Video enviado]", file |-> "[Archivo enviado]"]

\* validate_and_prepare_message without the check that there is content
validate_without_content_check(m) ==
    LET user_message == IF mentioned_in(m) THEN clean_mention_from_message(m.content)
                        ELSE m.content
        attachments_info == [i \in 1..Len(m.attachments) |->
                                classify_attachment(m.attachments[i])]
    IN  << [user_message |-> IF user_message = "" /\ attachments_info # <<>>
                             THEN default_text[attachments_info[1].type]
                             ELSE user_message,
            attachments_info |-> attachments_info] >>

\* validate_and_prepare_message choosing the placeholder by the last attachment
validate_placeholder_by_last(m) ==
    LET prepared == validate_without_content_check(m)
        info == prepared[1].attachments_info
        text == IF mentioned_in(m) THEN clean_mention_from_message(m.content)
                ELSE m.content
    IN  IF text = "" /\ info = <<>> THEN <<>>
        ELSE IF text = ""
        THEN << [prepared[1] EXCEPT !.user_message = default_text[info[Len(info)].type]] >>
        ELSE prepared

\* None is <<>>; otherwise <<[user_message, attachments_info]>>
validate_and_prepare_message(m) ==
    LET user_message == IF mentioned_in(m) THEN clean_mention_from_message(m.content)
                        ELSE m.content
        attachments_info == [i \in 1..Len(m.attachments) |->
                                classify_attachment(m.attachments[i])]
    IN  IF user_message = "" /\ attachments_info = <<>> THEN <<>>
        ELSE << [user_message |-> IF user_message = ""
                                  THEN default_text[attachments_info[1].type]
                                  ELSE user_message,
                 attachments_info |-> attachments_info] >>

(***************************************************************************)
(* The payload send_to_webhook builds.                                     *)
(***************************************************************************)
IsDM(m) == m.channel.dm

\* the payload with the conversation keyed by the author, not by the channel
Payload_conversation_per_user(m, prep) ==
    [message |-> prep.user_message, user_id |-> m.author.id,
     username |-> m.author.name, platform |-> "discord",
     metadata |-> [message_id |-> m.id,
                   user |-> [id |-> m.author.id, username |-> m.author.name,
                             bot |-> m.author.bot],
                   channel |-> [id |-> ToString(m.channel.id),
                                type |-> IF IsDM(m) THEN "private" ELSE "text"],
                   guild |-> <<>>,
                   conversation_id |-> m.author.id,
                   thread_id |-> m.author.id]]

Payload(m, prep) ==
    LET metadata == [message_id |-> m.id,
                     user |-> [id |-> m.author.id, username |-> m.author.name,
                               bot |-> m.author.bot],
                     channel |-> [id |-> ToString(m.channel.id),
                                  type |-> IF IsDM(m) THEN "private" ELSE "text"],
                     guild |-> IF IsDM(m) THEN <<>> ELSE <<[id |-> m.channel.guild]>>,
                     conversation_id |-> ToString(m.channel.id),
                     thread_id |-> ToString(m.channel.id)]
        base == [message |-> prep.user_message, user_id |-> m.author.id,
                 username |-> m.author.name, platform |-> "discord",
                 metadata |-> metadata]
    IN  IF prep.attachments_info # <<>>
        THEN [k \in DOMAIN base \cup {"attachments"} |->
                 IF k = "attachments" THEN prep.attachments_info ELSE base[k]]
        ELSE base

(***************************************************************************)
(* send_chunked_response: the slices text[i:i + DISCORD_MESSAGE_LIMIT].    *)
(***************************************************************************)
Min(a, b) == IF a < b THEN a ELSE b

\* the slices without the last, shorter one
Chunks_drop_tail(text) ==
    [k \in 1..(Len(text) \div DISCORD_MESSAGE_LIMIT) |->
        SubSeq(text, (k - 1) * DISCORD_MESSAGE_LIMIT + 1, k * DISCORD_MESSAGE_LIMIT)]

Chunks(text) ==
    LET n == Len(text)
        count == (n + DISCORD_MESSAGE_LIMIT - 1) \div DISCORD_MESSAGE_LIMIT
    IN  [k \in 1..count |->
            SubSeq(text, (k - 1) * DISCORD_MESSAGE_LIMIT + 1,
                   Min(k * DISCORD_MESSAGE_LIMIT, n))]

(***************************************************************************)
(* The notices the bot sends.  In the two notices that answer a webhook    *)
(* outcome "X" stands for the cross mark (one character), so that they     *)
(* have the length of the source's.                                        *)
(***************************************************************************)
DisabledNotice == "El bot esta temporalmente deshabilitado. Por favor, intenta mas tarde."
HelpPrompt == "Hola! Por favor enviame un mensaje, archivo, audio o imagen."
ErrorPrefix == "X Lo siento, hubo un error: "
EmptyNotice == "X Recibi una respuesta vacia del servidor."
InfoText == "Bot Mia - Ayuda"
StatusOn == "Bot habilitado y funcionando correctamente"
StatusOff == "Bot temporalmente deshabilitado"
CommandErrorNotice == "Ocurrio un error al ejecutar el comando."
CooldownNotice == "Espera unos segundos antes de usar este comando nuevamente."
PongText(ms) == "Pong! Latencia: " \o ToString(ms) \o "ms"

(***************************************************************************)
(* State.                                                                  *)
(*   http_session   the global: 0 is None, n > 0 the n-th ClientSession    *)
(*   open_sessions  the sessions created and not closed                    *)
(*   pipe[s]        the task handling one inbound message: the message,    *)
(*                  the await it is suspended at (pc), its locals, and log *)
(*                  the requests it issued and the chat messages it sent,  *)
(*                  in order; outcome names how it ended; flag_outcome and *)
(*                  webhook_outcome hold the outcome of the request that   *)
(*                  completed in the task's last step                      *)
(***************************************************************************)
VARIABLES http_session, open_sessions, pipe

vars == <<http_session, open_sessions, pipe>>

\* The tasks that may be in flight together.
Slots == {1, 2}

IdlePipe ==
    [msg |-> <<>>, pc |-> "idle", flag_outcome |-> <<>>, bot_enabled |-> <<>>,
     prepared |-> <<>>, webhook_outcome |-> <<>>, response_data |-> <<>>,
     response_text |-> <<>>, chunks |-> <<>>, sent_chunks |-> 0, log |-> <<>>, outcome |-> ""]

Emit(p, ev) == [p EXCEPT !.log = Append(@, ev)]

\* await channel.send(text) / await ctx.send(text)
Send(p, text) == Emit(p, [e |-> "send", text |-> text])

Finish(p, outcome) == [p EXCEPT !.pc = "done", !.outcome = outcome]

\* A request on a closed ClientSession raises RuntimeError("Session is closed").
SessionClosed == http_session \notin open_sessions

(***************************************************************************)
(* send_chunked_response, up to its first asyncio.sleep.                   *)
(***************************************************************************)
send_chunked_response(p, text) ==
    IF Len(text) <= DISCORD_MESSAGE_LIMIT
    THEN Finish(Send(p, text), "Responded")
    ELSE LET chunks == Chunks(text)
         IN  [Emit(Send(p, chunks[1]), [e |-> "sleep"])
                EXCEPT !.chunks = chunks, !.sent_chunks = 1, !.pc = "chunk_sleep"]

(***************************************************************************)
(* handle_webhook_response.  `"error" in response_data` is a key test on a *)
(* dict, an element test on a list, a substring test on a str, and raises  *)
(* TypeError on a number, a boolean or None; response_data.get exists on a *)
(* dict only (AttributeError).  An exception leaves process_message and    *)
(* on_message: the task ends having sent nothing more.                     *)
(***************************************************************************)
ErrorIn(d) ==
    CASE d.t = "obj" -> IF HasKey(d, "error") THEN "yes" ELSE "no"
      [] d.t = "arr" -> IF \E i \in 1..Len(d.v) : d.v[i] = JStr("error") THEN "yes" ELSE "no"
      [] d.t = "str" -> IF Contains(d.v, "error") THEN "yes" ELSE "no"
      [] OTHER -> "TypeError"

\* handle_webhook_response posting again, silently, after a failed attempt
handle_webhook_response_retry(p, response_data) ==
    IF IsDict(response_data) /\ HasKey(response_data, "error")
    THEN [Emit(p, [e |-> "post", session |-> http_session,
                   payload |-> Payload(p.msg[1], p.prepared[1])])
            EXCEPT !.pc = "webhook_wait", !.webhook_outcome = <<>>]
    ELSE Finish(Send([p EXCEPT !.response_data = <<response_data>>],
                     extract_response_text(response_data)), "Responded")

handle_webhook_response(p, response_data) ==
    LET q == [p EXCEPT !.response_data = <<response_data>>]
        response_text == extract_response_text(response_data)
    IN  CASE ErrorIn(response_data) = "TypeError" -> Finish(q, "Raised")
          [] ErrorIn(response_data) = "yes" ->
                IF IsDict(response_data)
                THEN Finish(Send(q, ErrorPrefix \o PyStr(Lookup(response_data, "error"))),
                            "ErrorReported")
                ELSE Finish(q, "Raised")
          [] OTHER ->
                LET r == [q EXCEPT !.response_text = <<response_text>>]
                IN  IF response_text = "" THEN Finish(Send(r, EmptyNotice), "EmptyNotified")
                    ELSE IF response_text \in SYSTEM_MESSAGES
                         THEN Finish(r, "SystemSuppressed")
                    ELSE send_chunked_response(r, response_text)

(***************************************************************************)
(* process_message after is_bot_enabled returned, up to the await of       *)
(* channel.typing().                                                       *)
(***************************************************************************)
\* process_message without the return after the disabled notice
AfterGate_no_return(p, enabled) ==
    LET m == p.msg[1]
        q == [p EXCEPT !.bot_enabled = <<enabled>>]
        r == IF ~Truthy(enabled) THEN Send(q, DisabledNotice) ELSE q
        prepared == validate_and_prepare_message(m)
    IN  IF prepared = <<>> THEN Finish(Send(r, HelpPrompt), "Prompted")
        ELSE [Emit(r, [e |-> "typing"]) EXCEPT !.prepared = prepared, !.pc = "typing_wait"]

AfterGate(p, enabled) ==
    LET m == p.msg[1]
        q == [p EXCEPT !.bot_enabled = <<enabled>>]
        prepared == validate_and_prepare_message(m)
    IN  IF ~Truthy(enabled) THEN Finish(Send(q, DisabledNotice), "Suppressed")
        ELSE IF prepared = <<>> THEN Finish(Send(q, HelpPrompt), "Prompted")
        ELSE [Emit(q, [e |-> "typing"]) EXCEPT !.prepared = prepared, !.pc = "typing_wait"]

\* process_message taking the gate as enabled without asking the flag service
process_message_gate_assumed(p) ==
    IF p.msg[1].author.bot THEN Finish(p, "Filtered")
    ELSE AfterGate(p, JBool(TRUE))

(***************************************************************************)
(* process_message, up to the await of the flag request: without a session *)
(* is_bot_enabled returns True at once, on a closed one the request raises.*)
(***************************************************************************)
process_message(p) ==
    IF p.msg[1].author.bot THEN Finish(p, "Filtered")
    ELSE IF http_session = 0 THEN AfterGate(p, JBool(TRUE))
    ELSE IF SessionClosed
         THEN AfterGate([p EXCEPT !.flag_outcome = <<Raised("RuntimeError")>>],
                        is_bot_enabled(Raised("RuntimeError")))
    ELSE [Emit(p, [e |-> "flag_get", session |-> http_session]) EXCEPT !.pc = "flag_wait"]

(***************************************************************************)
(* bot.process_commands: a message that starts with the prefix invokes the *)
(* command its first word names; the library's per-user cooldown bucket    *)
(* (on_cooldown) raises CommandOnCooldown; an unknown command is ignored.  *)
(***************************************************************************)
CommandPrefix == "!"

RECURSIVE FirstWord(_)
FirstWord(s) ==
    IF Len(s) = 0 \/ CharAt(s, 1) \in Whitespace THEN ""
    ELSE CharAt(s, 1) \o FirstWord(SubSeq(s, 2, Len(s)))

\* status_command after is_bot_enabled returned
status_command(p, is_enabled) ==
    Finish(Send([p EXCEPT !.bot_enabled = <<is_enabled>>],
                IF Truthy(is_enabled) THEN StatusOn ELSE StatusOff), "Command")

CommandName(content) == FirstWord(SubSeq(content, Len(CommandPrefix) + 1, Len(content)))

process_commands(p, on_cooldown, latency_ms) ==
    LET m == p.msg[1]
        q == Emit(p, [e |-> "commands"])
        name == CommandName(m.content)
    IN  IF m.author.bot \/ ~StartsWith(m.content, CommandPrefix) THEN Finish(q, "NoCommand")
        ELSE IF name \notin {"ping", "info", "status"} THEN Finish(q, "NoCommand")
        ELSE IF on_cooldown THEN Finish(Send(q, CooldownNotice), "Cooldown")
        ELSE IF name = "ping" THEN Finish(Send(q, PongText(latency_ms)), "Command")
        ELSE IF name = "info" THEN Finish(Send(q, InfoText), "Command")
        ELSE IF http_session = 0 THEN status_command(q, JBool(TRUE))
        ELSE IF SessionClosed
             THEN status_command([q EXCEPT !.flag_outcome = <<Raised("RuntimeError")>>],
                                 is_bot_enabled(Raised("RuntimeError")))
        ELSE [Emit(q, [e |-> "flag_get", session |-> http_session])
                EXCEPT !.pc = "status_wait"]

(***************************************************************************)
(* on_message: the filter and the routing.                                 *)
(***************************************************************************)
\* the routing without the test of the broadcast mention
RelayRouted_any_mention(m) == IsDM(m) \/ m.mentions_bot

RelayRouted(m) == IsDM(m) \/ (m.mentions_bot /\ ~m.mention_everyone)

\* on_message without the filter of bot authors
on_message_no_filter(p, on_cooldown, latency_ms) ==
    IF RelayRouted(p.msg[1]) THEN process_message(Emit(p, [e |-> "process_message"]))
    ELSE process_commands(p, on_cooldown, latency_ms)

\* on_message handing a text that starts with the prefix to the dispatcher
\* wherever it arrives
on_message_commands_anywhere(p, on_cooldown, latency_ms) ==
    IF p.msg[1].author.bot THEN Finish(p, "Filtered")
    ELSE IF RelayRouted(p.msg[1]) /\ ~StartsWith(p.msg[1].content, CommandPrefix)
    THEN process_message(Emit(p, [e |-> "process_message"]))
    ELSE process_commands(p, on_cooldown, latency_ms)

on_message(p, on_cooldown, latency_ms) ==
    IF p.msg[1].author.bot THEN Finish(p, "Filtered")
    ELSE IF RelayRouted(p.msg[1]) THEN process_message(Emit(p, [e |-> "process_message"]))
    ELSE process_commands(p, on_cooldown, latency_ms)

(***************************************************************************)
(* Bounds and the inputs drawn from the environment.                       *)
(***************************************************************************)
\* The ready events (the gateway reconnects) of one run.
MaxReady == 1

RECURSIVE Repeat(_, _)
Repeat(s, n) ==
    IF n = 0 THEN ""
    ELSE IF n % 2 = 1 THEN s \o Repeat(s, n - 1)
    ELSE LET h == Repeat(s, n \div 2) IN h \o h

\* A text of n characters whose slices at different offsets differ.
TextOfLen(n) == SubSeq(Repeat("abcdefg", (n \div 7) + 1), 1, n)

Users == {[id |-> "7", name |-> "ana", bot |-> FALSE],
          [id |-> "9", name |-> "otrobot", bot |-> TRUE],
          [id |-> BotId, name |-> "Mia", bot |-> TRUE]}

\* channel.id is an integer (a snowflake); send_to_webhook sends str(channel.id).
ChannelSet == {[id |-> 100, dm |-> TRUE, guild |-> ""],
               [id |-> 200, dm |-> FALSE, guild |-> "500"]}

Contents == {"", " ", "hola", "hola  mundo", "<@42>  hola   mundo ", "<@!42>",
             "<@<@!42>42> hola", "!ping", "!info", "!status", "!nada"}

Attachment(filename, content_type) ==
    [filename |-> filename, url |-> "https://cdn/" \o filename, size |-> 1024,
     content_type |-> content_type]

AttachmentLists ==
    {<<>>,
     <<Attachment("foto.png", <<"image/png">>)>>,
     <<Attachment("doc.bin", <<>>), Attachment("voz.ogg", <<"audio/ogg">>)>>}

Messages ==
    [id : {"1"}, author : Users, channel : ChannelSet, mentions_bot : BOOLEAN,
     mention_everyone : BOOLEAN, content : Contents, attachments : AttachmentLists]

Latencies == {57}

\* What the flag service may answer.
FlagBodies ==
    {JObj(<< <<"key", JStr("mia")>>, <<"enabled", JBool(TRUE)>> >>),
     JObj(<< <<"key", JStr("mia")>>, <<"enabled", JBool(FALSE)>> >>),
     JObj(<< <<"key", JStr("mia")>> >>),
     JObj(<< <<"enabled", JNull>> >>),
     JArr(<<>>)}

FlagOutcomes ==
    {Raised("TimeoutError"), Raised("ClientConnectorError"), Raised("ValueError")}
    \cup {Response(200, <<b>>, <<PyStr(b)>>, "") : b \in FlagBodies}
    \cup {Response(200, <<>>, <<"<html>">>, "ContentTypeError"),
          Response(500, <<>>, <<"internal error">>, ""),
          Response(404, <<>>, <<>>, "ClientPayloadError")}

\* What the webhook may answer with status 200.
Replies ==
    {JStr("hola"), JStr(""), JStr("Workflow started"), JStr("workflow started"),
     JStr("hubo un error"), JStr(TextOfLen(2001)),
     JNum(42), JNum(0), JNull, JBool(TRUE),
     JArr(<<>>), JArr(<<JStr("hello")>>), JArr(<<JStr("")>>), JArr(<<JStr("error")>>),
     JArr(<<JStr("uno"), JStr("dos")>>),
     JArr(<<JArr(<<JStr("x")>>)>>), JArr(<<JArr(<<>>)>>),
     JArr(<<JObj(<< <<"output", JStr("Workflow executed successfully")>> >>)>>),
     JObj(<<>>),
     JObj(<< <<"response", JStr("hola")>> >>),
     JObj(<< <<"output", JStr("b")>>, <<"message", JStr("a")>> >>),
     JObj(<< <<"response", JNum(0)>>, <<"message", JStr("a")>> >>),
     JObj(<< <<"response", JNull>> >>),
     JObj(<< <<"text", JStr(TextOfLen(4500))>> >>),
     JObj(<< <<"reply", JStr("Workflow started")>> >>),
     JObj(<< <<"error", JStr("boom")>> >>),
     JObj(<< <<"error", JStr(TextOfLen(DISCORD_MESSAGE_LIMIT))>> >>),
     JObj(<< <<"error", JNull>>, <<"message", JStr("Workflow started")>> >>)}

WebhookOutcomes ==
    {Raised("ClientConnectorError"), Raised("TimeoutError"),
     Raised("ClientPayloadError"), Raised("ValueError")}
    \cup {Response(200, <<r>>, <<PyStr(r)>>, "") : r \in Replies}
    \cup {Response(200, <<>>, <<"<html>">>, "ContentTypeError"),
          Response(200, <<>>, <<"{">>, "JSONDecodeError"),
          Response(500, <<>>, <<"internal error">>, ""),
          Response(404, <<>>, <<"">>, ""),
          Response(502, <<>>, <<>>, "ClientPayloadError")}

(***************************************************************************)
(* Events.                                                                 *)
(***************************************************************************)
Init ==
    /\ http_session = 0
    /\ open_sessions = {}
    /\ pipe = [s \in Slots |-> IdlePipe]

\* on_ready: a new ClientSession replaces the global (the gateway dispatches
\* on_ready again after a reconnect that could not resume; limit bounds the run).
Ready(limit) ==
    /\ http_session < limit
    /\ http_session' = http_session + 1
    /\ open_sessions' = open_sessions \cup {http_session + 1}
    /\ UNCHANGED pipe

OnReady == Ready(MaxReady)

\* on_close: closes the session the global names, and leaves the global.
OnClose ==
    /\ open_sessions' = IF http_session # 0 THEN open_sessions \ {http_session}
                        ELSE open_sessions
    /\ UNCHANGED <<http_session, pipe>>

\* on_message that keeps the event loop to itself (a blocking request): no
\* message is taken up while another one is being handled.
OnMessage_blocking(s, m, on_cooldown, latency_ms) ==
    /\ \A t \in Slots : pipe[t].pc = "idle"
    /\ pipe' = [pipe EXCEPT ![s] =
                  on_message([IdlePipe EXCEPT !.msg = <<m>>], on_cooldown, latency_ms)]
    /\ UNCHANGED <<http_session, open_sessions>>

\* on_message, up to the first await of a request.
OnMessage(s, m, on_cooldown, latency_ms) ==
    /\ pipe[s].pc = "idle"
    /\ pipe' = [pipe EXCEPT ![s] =
                  on_message([IdlePipe EXCEPT !.msg = <<m>>], on_cooldown, latency_ms)]
    /\ UNCHANGED <<http_session, open_sessions>>

\* The flag request of process_message completes with outcome o.
FlagReply(s, o) ==
    /\ pipe[s].pc = "flag_wait"
    /\ pipe' = [pipe EXCEPT ![s] =
                  AfterGate([@ EXCEPT !.flag_outcome = <<o>>], is_bot_enabled(o))]
    /\ UNCHANGED <<http_session, open_sessions>>

\* The flag request of the status command completes with outcome o.
StatusFlagReply(s, o) ==
    /\ pipe[s].pc = "status_wait"
    /\ pipe' = [pipe EXCEPT ![s] =
                  status_command([@ EXCEPT !.flag_outcome = <<o>>], is_bot_enabled(o))]
    /\ UNCHANGED <<http_session, open_sessions>>

\* send_to_webhook without the test of http_session: the POST is issued
\* whether or not a client was opened.
TypingStarted_session_assumed(s) ==
    /\ pipe[s].pc = "typing_wait"
    /\ LET p == [pipe[s] EXCEPT !.flag_outcome = <<>>]
       IN  pipe' = [pipe EXCEPT ![s] =
                  [Emit(p, [e |-> "post", session |-> http_session,
                            payload |-> Payload(p.msg[1], p.prepared[1])])
                     EXCEPT !.pc = "webhook_wait"]]
    /\ UNCHANGED <<http_session, open_sessions>>

\* channel.typing() entered: send_to_webhook runs up to the await of the POST.
TypingStarted(s) ==
    /\ pipe[s].pc = "typing_wait"
    /\ LET p == [pipe[s] EXCEPT !.flag_outcome = <<>>]
       IN  pipe' = [pipe EXCEPT ![s] =
                  IF http_session = 0
                  THEN handle_webhook_response(p, ErrorDict("Sesion HTTP no disponible"))
                  ELSE IF SessionClosed
                  THEN handle_webhook_response(
                           [p EXCEPT !.webhook_outcome = <<Raised("RuntimeError")>>],
                           send_to_webhook(Raised("RuntimeError")))
                  ELSE [Emit(p, [e |-> "post", session |-> http_session,
                                 payload |-> Payload(p.msg[1], p.prepared[1])])
                          EXCEPT !.pc = "webhook_wait"]]
    /\ UNCHANGED <<http_session, open_sessions>>

\* The POST completes with outcome o: send_to_webhook returns and
\* handle_webhook_response runs up to the first sleep between chunks.
WebhookReply(s, o) ==
    /\ pipe[s].pc = "webhook_wait"
    /\ pipe' = [pipe EXCEPT ![s] =
                  handle_webhook_response([@ EXCEPT !.webhook_outcome = <<o>>],
                                          send_to_webhook(o))]
    /\ UNCHANGED <<http_session, open_sessions>>

\* asyncio.sleep(0.5) returns: the next chunk and its sleep, or the end of the loop.
ChunkWake(s) ==
    /\ pipe[s].pc = "chunk_sleep"
    /\ pipe' = [pipe EXCEPT ![s] =
                  IF @.sent_chunks < Len(@.chunks)
                  THEN [Emit(Send(@, @.chunks[@.sent_chunks + 1]), [e |-> "sleep"])
                          EXCEPT !.sent_chunks = @ + 1]
                  ELSE Finish(@, "Responded")]
    /\ UNCHANGED <<http_session, open_sessions>>

\* The task of a handled message is gone: its locals are dropped.
TaskEnd(s) ==
    /\ pipe[s].pc = "done"
    /\ pipe' = [pipe EXCEPT ![s] = IdlePipe]
    /\ UNCHANGED <<http_session, open_sessions>>

(***************************************************************************)
(* Spec: the events of the bot with one message task in flight at a time   *)
(* (the tasks share nothing but http_session).                             *)
(***************************************************************************)
Next ==
    \/ OnReady
    \/ OnClose
    \/ \E m \in Messages, cd \in BOOLEAN, ms \in Latencies : OnMessage(1, m, cd, ms)
    \/ \E o \in FlagOutcomes : FlagReply(1, o)
    \/ \E o \in FlagOutcomes : StatusFlagReply(1, o)
    \/ TypingStarted(1)
    \/ \E o \in WebhookOutcomes : WebhookReply(1, o)
    \/ ChunkWake(1)
    \/ TaskEnd(1)

Spec == Init /\ [][Next]_vars

(***************************************************************************)
(* SpecChunk: send_chunked_response alone, on texts of the lengths around  *)
(* the multiples of the limit, up to MaxTextLen.                           *)
(***************************************************************************)
MaxTextLen == 4500

ChunkLens ==
    {n \in 1..MaxTextLen :
        LET r == n % DISCORD_MESSAGE_LIMIT
        IN  r <= 20 \/ r >= DISCORD_MESSAGE_LIMIT - 20 \/ r = 500 \/ n = MaxTextLen}

InitChunk ==
    /\ http_session = 0
    /\ open_sessions = {}
    /\ \E n \in ChunkLens :
          pipe = [s \in Slots |->
                    IF s = 1
                    THEN [IdlePipe EXCEPT !.pc = "deliver",
                                          !.response_text = <<TextOfLen(n)>>]
                    ELSE IdlePipe]

\* send_chunked_response(channel, response_text), up to its first sleep
Deliver(s) ==
    /\ pipe[s].pc = "deliver"
    /\ pipe' = [pipe EXCEPT ![s] = send_chunked_response(@, @.response_text[1])]
    /\ UNCHANGED <<http_session, open_sessions>>

NextChunk == Deliver(1) \/ ChunkWake(1)

SpecChunk == InitChunk /\ [][NextChunk]_vars

(***************************************************************************)
(* SpecExtract: extract_response_text alone, on the decoded JSON values    *)
(* whose arrays and objects have up to MaxJsonLen members.                 *)
(***************************************************************************)
MaxJsonLen == 2

SeqsUpTo(S, n) == UNION {[1..k -> S] : k \in 0..n}

ExScalars == {JNull, JBool(TRUE), JBool(FALSE), JNum(0), JNum(42),
              JStr(""), JStr("a"), JStr("b")}

\* Member names in an order unrelated to the order the extractor searches in.
ExKeys == <<"reply", "other", "output", "response", "text", "message">>

ExMemberValues == {JNull, JBool(FALSE), JNum(0), JStr(""), JStr("a"), JStr("b"),
                   JArr(<<>>)}

\* Up to n distinct members of ExKeys, in the list's order or against it.
ExKeyLists(n) ==
    {q \in SeqsUpTo(1..Len(ExKeys), n) :
        \/ \A i \in 1..(Len(q) - 1) : q[i] < q[i + 1]
        \/ \A i \in 1..(Len(q) - 1) : q[i] > q[i + 1]}

ExObjects(n) ==
    UNION {{JObj([i \in 1..Len(ks) |-> <<ExKeys[ks[i]], vs[i]>>]) :
                vs \in [1..Len(ks) -> ExMemberValues]} : ks \in ExKeyLists(n)}

ExElements == ExScalars \cup {JArr(<<>>), JArr(<<JStr("x")>>), JObj(<<>>),
                              JObj(<< <<"text", JStr("t")>> >>)}

ExArrays(n) ==
    {JArr(xs) : xs \in SeqsUpTo(ExElements, n)}
    \cup {JArr(<<o>>) : o \in ExObjects(n)}

ExValues(n) == ExScalars \cup ExObjects(n) \cup ExArrays(n)

InitExtract ==
    /\ http_session = 0
    /\ open_sessions = {}
    /\ \E d \in ExValues(MaxJsonLen) :
          pipe = [s \in Slots |->
                    IF s = 1
                    THEN [IdlePipe EXCEPT !.pc = "extract", !.response_data = <<d>>]
                    ELSE IdlePipe]

\* response_text = extract_response_text(response_data)
Extract(s) ==
    /\ pipe[s].pc = "extract"
    /\ LET text == extract_response_text(pipe[s].response_data[1])
       IN  pipe' = [pipe EXCEPT ![s] =
                      Finish([@ EXCEPT !.response_text = <<text>>], "Extracted")]
    /\ UNCHANGED <<http_session, open_sessions>>

NextExtract == Extract(1)

SpecExtract == InitExtract /\ [][NextExtract]_vars

(***************************************************************************)
(* SpecPrepare: validate_and_prepare_message (and with it                  *)
(* classify_attachment) and the payload built from its result, alone, on   *)
(* messages with up to MaxAttachments attachments.                         *)
(***************************************************************************)
MaxAttachments == 2

PrepContentTypes ==
    {<<>>, <<"">>, <<"audio/ogg">>, <<"image/png">>, <<"video/mp4">>,
     <<"application/pdf">>, <<"Image/png">>, <<"audio">>, <<"text/video/x">>}

PrepAttachments ==
    {Attachment(f, ct) : f \in {"a.bin", "b.png"}, ct \in PrepContentTypes}

PrepMessages(n) ==
    [id : {"1"}, author : {u \in Users : ~u.bot}, channel : {c \in ChannelSet : ~c.dm},
     mentions_bot : BOOLEAN, mention_everyone : {FALSE},
     content : {"", "hola", "<@42>"}, attachments : SeqsUpTo(PrepAttachments, n)]

InitPrepare ==
    /\ http_session = 0
    /\ open_sessions = {}
    /\ \E m \in PrepMessages(MaxAttachments) :
          pipe = [s \in Slots |->
                    IF s = 1 THEN [IdlePipe EXCEPT !.pc = "prepare", !.msg = <<m>>]
                    ELSE IdlePipe]

\* prepared = validate_and_prepare_message(message), then the payload
Prepare(s) ==
    /\ pipe[s].pc = "prepare"
    /\ LET p == pipe[s]
           prepared == validate_and_prepare_message(p.msg[1])
       IN  pipe' = [pipe EXCEPT ![s] =
                      IF prepared = <<>> THEN Finish(p, "NoContent")
                      ELSE Finish(Emit([p EXCEPT !.prepared = prepared],
                                       [e |-> "payload",
                                        payload |-> Payload(p.msg[1], prepared[1])]),
                                  "Prepared")]
    /\ UNCHANGED <<http_session, open_sessions>>

NextPrepare == Prepare(1)

SpecPrepare == InitPrepare /\ [][NextPrepare]_vars

(***************************************************************************)
(* SpecConc: the events of the bot with two message tasks in flight (every *)
(* await lets the event loop run the other task, on_ready or on_close), on *)
(* a few messages and outcomes.                                            *)
(***************************************************************************)
\* The ready events of one run of SpecConc.
MaxSessions == 2

ConcMessages ==
    {m \in Messages :
        /\ m.author.name = "ana" /\ m.attachments = <<>>
        /\ ~m.mentions_bot /\ ~m.mention_everyone
        /\ \/ m.channel.dm /\ m.content = "hola"
           \/ ~m.channel.dm /\ m.content = "!status"}

ConcFlagOutcomes ==
    {Raised("TimeoutError")}
    \cup {Response(200, <<b>>, <<PyStr(b)>>, "") :
            b \in {JObj(<< <<"key", JStr("mia")>>, <<"enabled", JBool(TRUE)>> >>),
                   JObj(<< <<"key", JStr("mia")>>, <<"enabled", JBool(FALSE)>> >>)}}

ConcWebhookOutcomes ==
    {Response(500, <<>>, <<"internal error">>, "")}
    \cup {Response(200, <<r>>, <<PyStr(r)>>, "") :
            r \in {JStr("hola"), JStr(TextOfLen(2001))}}

NextConc ==
    \/ Ready(MaxSessions)
    \/ OnClose
    \/ \E s \in Slots :
          \/ \E m \in ConcMessages, cd \in BOOLEAN, ms \in Latencies : OnMessage(s, m, cd, ms)
          \/ \E o \in ConcFlagOutcomes : FlagReply(s, o)
          \/ \E o \in ConcFlagOutcomes : StatusFlagReply(s, o)
          \/ TypingStarted(s)
          \/ \E o \in ConcWebhookOutcomes : WebhookReply(s, o)
          \/ ChunkWake(s)
          \/ TaskEnd(s)

SpecConc == Init /\ [][NextConc]_vars

(***************************************************************************)
(* What a task did, read from its log.                                     *)
(***************************************************************************)
IsSend(ev) == ev.e = "send"

\* The chat messages the task sent, in order.
Sends(p) == LET sel == SelectSeq(p.log, IsSend) IN [i \in 1..Len(sel) |-> sel[i].text]

Did(p, e) == \E i \in 1..Len(p.log) : p.log[i].e = e

Handling(p) == p.msg # <<>>

(***************************************************************************)
(* C1.  The flag gate fails open: when the flag request times out, fails   *)
(* to connect, raises anything else, is answered with a status other than  *)
(* 200, or is answered 200 with a body that does not decode (or that is no *)
(* object, so that reading `enabled` raises), is_bot_enabled returns True  *)
(* and the caller goes on as enabled: the relay goes on to validation (no  *)
(* disabled notice), the status command reports enabled.                   *)
(***************************************************************************)
FlagFailed(o) ==
    \/ o.kind = "raise"
    \/ o.status # 200
    \/ o.json = <<>>
    \/ ~IsDict(o.json[1])

C1_FailOpen ==
    \A s \in Slots :
        LET p == pipe[s] IN
        (p.flag_outcome # <<>> /\ FlagFailed(p.flag_outcome[1])) =>
            /\ p.bot_enabled = <<JBool(TRUE)>>
            /\ p.outcome # "Suppressed"
            /\ \A i \in 1..Len(Sends(p)) : Sends(p)[i] \notin {DisabledNotice, StatusOff}
            /\ IF Did(p, "commands")
               THEN p.outcome = "Command" /\ Sends(p) = <<StatusOn>>
               ELSE p.pc = "typing_wait" \/ p.outcome = "Prompted"

C1_Witness ==
    /\ pipe[1].flag_outcome = <<Raised("TimeoutError")>>
    /\ pipe[1].bot_enabled = <<JBool(TRUE)>>
    /\ pipe[1].pc = "typing_wait"

(***************************************************************************)
(* C2.  Routing: a message of a non-bot author is handed to                *)
(* process_message exactly when its channel is a DM channel, or the bot is *)
(* among its mentions and it carries no broadcast mention; otherwise it is *)
(* handed to the command dispatcher; never to both.                        *)
(***************************************************************************)
C2_Routing ==
    \A s \in Slots :
        LET p == pipe[s] IN
        (Handling(p) /\ ~p.msg[1].author.bot) =>
            LET m == p.msg[1] IN
            /\ Did(p, "process_message")
                  <=> (m.channel.dm \/ (m.mentions_bot /\ ~m.mention_everyone))
            /\ Did(p, "commands") <=> ~Did(p, "process_message")

C2_Witness ==
    /\ Handling(pipe[1])
    /\ ~pipe[1].msg[1].author.bot
    /\ ~pipe[1].msg[1].channel.dm
    /\ pipe[1].msg[1].mentions_bot /\ pipe[1].msg[1].mention_everyone
    /\ Did(pipe[1], "commands") /\ ~Did(pipe[1], "process_message")

(***************************************************************************)
(* C3.  A message of a bot author (the bot itself included) ends at the    *)
(* filter, in a DM channel or a guild channel: no flag request, no webhook *)
(* call, no chat message, no command dispatch.                             *)
(***************************************************************************)
C3_BotFiltered ==
    \A s \in Slots :
        LET p == pipe[s] IN
        (Handling(p) /\ p.msg[1].author.bot) =>
            /\ p.pc = "done"
            /\ \A i \in 1..Len(p.log) :
                  p.log[i].e \notin {"flag_get", "typing", "post", "send", "commands"}

C3_Witness ==
    /\ Handling(pipe[1])
    /\ pipe[1].msg[1].author.id = BotId /\ pipe[1].msg[1].author.bot
    /\ pipe[1].msg[1].channel.dm
    /\ pipe[1].msg[1].content = "!status"
    /\ pipe[1].pc = "done" /\ pipe[1].log = <<>>

(***************************************************************************)
(* C4.  When the gate returns disabled for a relay-routed message, the     *)
(* task sends the disabled notice, once, and ends: no webhook call and no  *)
(* other chat message, whatever the text and the attachments.              *)
(***************************************************************************)
C4_DisabledStops ==
    \A s \in Slots :
        LET p == pipe[s] IN
        (Did(p, "process_message") /\ p.bot_enabled # <<>> /\ ~Truthy(p.bot_enabled[1])) =>
            /\ p.pc = "done"
            /\ Sends(p) = <<DisabledNotice>>
            /\ ~Did(p, "typing") /\ ~Did(p, "post")

C4_Witness ==
    /\ Did(pipe[1], "process_message")
    /\ pipe[1].bot_enabled = <<JBool(FALSE)>>
    /\ pipe[1].msg[1].content = "hola" /\ pipe[1].msg[1].attachments # <<>>
    /\ Sends(pipe[1]) = <<DisabledNotice>>

(***************************************************************************)
(* C5.  No payload with an empty message and no attachments: a relay-routed*)
(* message that passed the gate and has no text and no attachments gets    *)
(* the help prompt, alone, and no webhook call; every payload posted has a *)
(* non-empty message or a non-empty attachments list.                      *)
(***************************************************************************)
C5_NoEmptyPayload ==
    \A s \in Slots :
        LET p == pipe[s] IN
        /\ \A i \in 1..Len(p.log) :
              p.log[i].e = "post" =>
                \/ p.log[i].payload.message # ""
                \/ /\ "attachments" \in DOMAIN p.log[i].payload
                   /\ p.log[i].payload.attachments # <<>>
        /\ ( /\ Did(p, "process_message")
             /\ p.bot_enabled # <<>> /\ Truthy(p.bot_enabled[1])
             /\ p.msg[1].content = "" /\ p.msg[1].attachments = <<>> ) =>
                /\ p.pc = "done"
                /\ Sends(p) = <<HelpPrompt>>
                /\ ~Did(p, "typing") /\ ~Did(p, "post")

C5_Witness ==
    /\ Did(pipe[1], "process_message")
    /\ pipe[1].flag_outcome # <<>> /\ pipe[1].flag_outcome[1].kind = "response"
    /\ pipe[1].bot_enabled = <<JBool(TRUE)>>
    /\ pipe[1].msg[1].content = "" /\ pipe[1].msg[1].attachments = <<>>
    /\ Sends(pipe[1]) = <<HelpPrompt>>

(***************************************************************************)
(* C6.  Chunked delivery: a non-empty text of n characters is sent as      *)
(* ceil(n / 2000) messages, each of at most 2000 characters and all but    *)
(* the last of exactly 2000, whose concatenation in send order is the text *)
(* (at every moment of the delivery what was sent is a prefix of it; 4500  *)
(* characters go out as 2000, 2000, 500), and the task sleeps between two  *)
(* consecutive chunks.                                                     *)
(***************************************************************************)
RECURSIVE Concat(_)
Concat(ss) == IF ss = <<>> THEN "" ELSE ss[1] \o Concat(Tail(ss))

C6_Chunked ==
    \A s \in Slots :
        LET p == pipe[s] IN
        (p.response_text # <<>> /\ p.response_text[1] # ""
            /\ (p.pc = "chunk_sleep" \/ p.outcome = "Responded")) =>
            LET text == p.response_text[1]
                n == Len(text)
                sent == Sends(p)
                sentText == Concat(sent)
            IN  /\ sentText = SubSeq(text, 1, Len(sentText))
                /\ \A i \in 1..Len(sent) : Len(sent[i]) >= 1 /\ Len(sent[i]) <= 2000
                /\ \A i \in 1..(Len(sent) - 1) : Len(sent[i]) = 2000
                /\ \A i, j \in 1..Len(p.log) :
                      (i < j /\ p.log[i].e = "send" /\ p.log[j].e = "send") =>
                          \E k \in (i + 1)..(j - 1) : p.log[k].e = "sleep"
                /\ p.outcome = "Responded" =>
                      /\ sentText = text
                      /\ Len(sent) = (n + 1999) \div 2000
                      /\ n = 4500 => [i \in 1..Len(sent) |-> Len(sent[i])]
                                        = <<2000, 2000, 500>>

C6_Witness ==
    /\ pipe[1].outcome = "Responded"
    /\ pipe[1].response_text # <<>> /\ Len(pipe[1].response_text[1]) = 4500
    /\ Len(Sends(pipe[1])) = 3

(***************************************************************************)
(* C7.  As claimed: for a mapping, the keys response, message, output,     *)
(* text, reply are searched in that order and the result is the string     *)
(* form of the first present value whose string form is non-empty; a       *)
(* mapping with no such key, and a scalar, gives its string                *)
(* representation ({"message": "a", "output": "b"} gives "a").  The code   *)
(* skips a present value that is falsy, whatever its string form:          *)
(* {"response": 0} gives "{'response': 0}", not "0", and                   *)
(* {"response": 0, "message": "hi"} gives "hi".                            *)
(***************************************************************************)
ClaimKeys == <<"response", "message", "output", "text", "reply">>

IsScalar(d) == d.t \in {"null", "bool", "num", "str"}

\* The claim's extraction from a mapping d: the string form of the first
\* value, in the order of ClaimKeys, that is present in d and has a non-empty
\* string form; the string form of d without one.
FirstWithText(d) ==
    LET hits == {i \in 1..Len(ClaimKeys) :
                    HasKey(d, ClaimKeys[i]) /\ PyStr(Lookup(d, ClaimKeys[i])) # ""}
    IN  IF hits = {} THEN PyStr(d)
        ELSE PyStr(Lookup(d, ClaimKeys[CHOOSE i \in hits : \A j \in hits : i <= j]))

C7_AsClaimed ==
    \A s \in Slots :
        LET p == pipe[s] IN
        p.outcome = "Extracted" =>
            LET d == p.response_data[1]
                text == p.response_text[1]
            IN  /\ IsDict(d) => text = FirstWithText(d)
                /\ IsScalar(d) => text = PyStr(d)

(***************************************************************************)
(* C8.  As claimed: the extraction of a sequence is the extraction of its  *)
(* first element, and "" for the empty sequence; a reply without an error  *)
(* field whose extracted text is empty gets the empty-response notice and  *)
(* nothing else.  The code does not unwrap a first element that is itself  *)
(* a sequence: [["x"]] gives "['x']", the extraction of ["x"] is "x".      *)
(***************************************************************************)
EmptyReplyNotified(p) ==
    (p.response_data # <<>>
        /\ ~(IsDict(p.response_data[1]) /\ HasKey(p.response_data[1], "error"))
        /\ extract_response_text(p.response_data[1]) = "") =>
            /\ p.pc = "done"
            /\ p.response_text = <<"">>
            /\ Sends(p) = <<EmptyNotice>>

C9_SystemMessages ==
    \A s \in Slots :
        LET p == pipe[s] IN
        (p.pc = "done" /\ p.response_data # <<>>
            /\ p.webhook_outcome # <<>> /\ p.webhook_outcome[1].kind = "response"
            /\ p.webhook_outcome[1].status = 200 /\ p.webhook_outcome[1].json # <<>>
            /\ ~(IsDict(p.response_data[1]) /\ HasKey(p.response_data[1], "error"))) =>
            LET text == extract_response_text(p.response_data[1]) IN
            /\ text \in {"Workflow started", "Workflow executed successfully"}
                  => Sends(p) = <<>>
            /\ (text # "" /\ text \notin {"Workflow started",
                                           "Workflow executed successfully"})
                  => Concat(Sends(p)) = text

Count(p, e) == Cardinality({i \in 1..Len(p.log) : p.log[i].e = e})

WebhookFailed(p) ==
    \/ /\ p.webhook_outcome # <<>>
       /\ LET o == p.webhook_outcome[1]
          IN  o.kind = "raise" \/ o.status # 200 \/ o.json = <<>>
    \/ /\ p.pc = "done" /\ Did(p, "typing") /\ ~Did(p, "post")

C11_NoRetries ==
    \A s \in Slots :
        LET p == pipe[s] IN
        /\ Count(p, "flag_get") <= 1
        /\ Count(p, "post") <= 1
        /\ WebhookFailed(p) =>
              /\ p.pc = "done" /\ p.outcome = "ErrorReported"
              /\ Len(Sends(p)) = 1
              /\ StartsWith(Sends(p)[1], ErrorPrefix)
              /\ Len(Sends(p)[1]) > Len(ErrorPrefix)
              /\ p.response_text = <<>>

C11_Witness ==
    /\ pipe[1].webhook_outcome = <<Raised("TimeoutError")>>
    /\ Count(pipe[1], "flag_get") = 1
    /\ Count(pipe[1], "post") = 1
    /\ Sends(pipe[1]) = <<ErrorPrefix \o "El servidor tardo demasiado en responder">>

(***************************************************************************)
(* C12.  As claimed: the gate inspects a 200 reply only; its result is     *)
(* then the boolean `enabled` of the reply, and true when the reply has no *)
(* such field; so the gate yields disabled, and a disabled notice or a     *)
(* disabled status is sent, only when the flag service answered 200 with   *)
(* `enabled` equal to false.  The code returns whatever value `enabled`    *)
(* has and the callers test its truth value: the 200 reply                 *)
(* {"enabled": null} disables too.                                         *)
(***************************************************************************)
AnsweredEnabledFalse(o) ==
    /\ o.kind = "response" /\ o.status = 200
    /\ o.json # <<>> /\ IsDict(o.json[1])
    /\ HasKey(o.json[1], "enabled")
    /\ Lookup(o.json[1], "enabled") = JBool(FALSE)

C12_OnlyFalseDisables ==
    \A s \in Slots :
        LET p == pipe[s] IN
        (p.flag_outcome # <<>> /\ p.bot_enabled # <<>>) =>
            LET o == p.flag_outcome[1]
                result == p.bot_enabled[1]
                disabled == \/ ~Truthy(result)
                            \/ p.outcome = "Suppressed"
                            \/ \E i \in 1..Len(Sends(p)) :
                                  Sends(p)[i] \in {DisabledNotice, StatusOff}
            IN  /\ (o.kind = "raise" \/ o.status # 200) => result = JBool(TRUE)
                /\ (o.kind = "response" /\ o.status = 200
                        /\ o.json # <<>> /\ IsDict(o.json[1])) =>
                      /\ result.t = "bool"
                      /\ result = IF HasKey(o.json[1], "enabled")
                                  THEN Lookup(o.json[1], "enabled")
                                  ELSE JBool(TRUE)
                /\ disabled => AnsweredEnabledFalse(o)

(***************************************************************************)
(* C13.  As claimed: every message of a non-bot author whose text is       *)
(* !ping, !info or !status reaches the command dispatcher and is handled   *)
(* as a command (executed, or answered with the wait notice while the      *)
(* user's cooldown runs), in a guild channel and in a direct-message       *)
(* channel alike.  on_message returns after process_message: in a DM the   *)
(* text !ping is relayed to the webhook and no command runs.               *)
(***************************************************************************)
CommandTexts == {"!ping", "!info", "!status"}

HandledAsCommand(p) ==
    /\ Did(p, "commands")
    /\ p.pc = "status_wait" \/ p.outcome \in {"Command", "Cooldown"}
    /\ p.outcome = "Command" =>
          \/ p.msg[1].content = "!ping" /\ \E ms \in Latencies : Sends(p) = <<PongText(ms)>>
          \/ p.msg[1].content = "!info" /\ Sends(p) = <<InfoText>>
          \/ p.msg[1].content = "!status" /\ Sends(p) \in {<<StatusOn>>, <<StatusOff>>}
    /\ p.outcome = "Cooldown" => Sends(p) = <<CooldownNotice>>

C13_AsClaimed ==
    \A s \in Slots :
        LET p == pipe[s] IN
        (Handling(p) /\ ~p.msg[1].author.bot /\ p.msg[1].content \in CommandTexts) =>
            HandledAsCommand(p)

(***************************************************************************)
(* C13, amended.  A message of a non-bot author whose text is !ping, !info *)
(* or !status is handled as a command exactly when it is not relay-routed: *)
(* in a guild channel without a direct mention of the bot (or with one     *)
(* next to a broadcast mention) it reaches the dispatcher and is executed, *)
(* or answered with the wait notice while the cooldown runs, and never     *)
(* enters the relay; in a direct-message channel, or with a direct         *)
(* mention, it enters the relay pipeline and never reaches the dispatcher. *)
(***************************************************************************)
C13_CommandsOutsideRelay ==
    \A s \in Slots :
        LET p == pipe[s] IN
        (Handling(p) /\ ~p.msg[1].author.bot /\ p.msg[1].content \in CommandTexts) =>
            LET m == p.msg[1]
                relayed == m.channel.dm \/ (m.mentions_bot /\ ~m.mention_everyone)
            IN  IF relayed
                THEN /\ Did(p, "process_message")
                     /\ ~Did(p, "commands")
                     /\ \A i \in 1..Len(Sends(p)) :
                           /\ Sends(p)[i] \notin {InfoText, StatusOn, StatusOff, CooldownNotice}
                           /\ \A ms \in Latencies : Sends(p)[i] # PongText(ms)
                ELSE /\ HandledAsCommand(p)
                     /\ ~Did(p, "process_message") /\ ~Did(p, "post")

C13_Witness ==
    /\ Handling(pipe[1])
    /\ pipe[1].msg[1].content = "!ping"
    /\ ~pipe[1].msg[1].channel.dm
    /\ pipe[1].outcome = "Command"
    /\ Sends(pipe[1]) = <<PongText(57)>>

(***************************************************************************)
(* C14.  In every payload posted to the webhook, conversation_id and       *)
(* thread_id are both the id of the channel the message arrived on (as a   *)
(* string), whatever was handled before; so the payload of any other       *)
(* message (another channel, another author) has the same conversation id  *)
(* if and only if that message is on the same channel.                     *)
(***************************************************************************)
C14_ConversationKey ==
    \A s \in Slots :
        LET p == pipe[s] IN
        \A i \in 1..Len(p.log) :
            p.log[i].e = "post" =>
                LET m == p.msg[1]
                    md == p.log[i].payload.metadata
                IN  /\ md.conversation_id = ToString(m.channel.id)
                    /\ md.thread_id = ToString(m.channel.id)
                    /\ md.channel.id = md.conversation_id
                    /\ \A c \in ChannelSet, u \in Users :
                          LET other == [m EXCEPT !.channel = c, !.author = u]
                          IN  (Payload(other, p.prepared[1]).metadata.conversation_id
                                  = md.conversation_id)
                              <=> (c.id = m.channel.id)

C14_Witness ==
    /\ pipe[1].pc = "webhook_wait"
    /\ pipe[1].msg[1].channel.id = 200
    /\ \E i \in 1..Len(pipe[1].log) :
          /\ pipe[1].log[i].e = "post"
          /\ pipe[1].log[i].payload.metadata.conversation_id = "200"
          /\ pipe[1].log[i].payload.metadata.thread_id = "200"

(***************************************************************************)
(* C15.  classify_attachment gives each attachment a kind that depends on  *)
(* its declared content type alone: audio, image or video when the content *)
(* type starts with "audio/", "image/" or "video/", file for any other     *)
(* content type and for an absent one (whatever the file's name).          *)
(***************************************************************************)
KindOfContentType(ct) ==
    IF ct = <<>> \/ Len(ct[1]) < 6 THEN "file"
    ELSE LET prefix == SubSeq(ct[1], 1, 6)
         IN  CASE prefix = "audio/" -> "audio"
               [] prefix = "image/" -> "image"
               [] prefix = "video/" -> "video"
               [] OTHER -> "file"

C15_Classified ==
    \A s \in Slots :
        LET p == pipe[s] IN
        p.prepared # <<>> =>
            LET atts == p.msg[1].attachments
                info == p.prepared[1].attachments_info
            IN  /\ Len(info) = Len(atts)
                /\ \A i \in 1..Len(atts) :
                      info[i].type = KindOfContentType(atts[i].content_type)

C15_Witness ==
    /\ pipe[1].outcome = "Prepared"
    /\ Len(pipe[1].msg[1].attachments) = 2
    /\ pipe[1].msg[1].attachments[1].content_type = <<"video/mp4">>
    /\ pipe[1].msg[1].attachments[2].content_type = <<>>
    /\ pipe[1].prepared[1].attachments_info[1].type = "video"
    /\ pipe[1].prepared[1].attachments_info[2].type = "file"

(***************************************************************************)
(* C16.  When the text of a message (after the mention is removed) is      *)
(* empty and it has attachments, the payload's message is the placeholder  *)
(* of the kind of the first attachment, whatever the later ones are (an    *)
(* image first gives "[Imagen enviada]"); when the text is not empty, the  *)
(* payload's message is what it is for the same message without            *)
(* attachments.  The payload lists the attachments in the order received.  *)
(***************************************************************************)
Placeholder(kind) ==
    CASE kind = "audio" -> "[Audio enviado]"
      [] kind = "image" -> "[Imagen enviada]"
      [] kind = "video" -> "[Video enviado]"
      [] kind = "file" -> "[Archivo enviado]"

C16_Placeholder ==
    \A s \in Slots :
        LET p == pipe[s] IN
        \A i \in 1..Len(p.log) :
            (p.log[i].e \in {"payload", "post"} /\ p.msg[1].attachments # <<>>) =>
                LET m == p.msg[1]
                    payload == p.log[i].payload
                    alone == validate_and_prepare_message([m EXCEPT !.attachments = <<>>])
                IN  /\ alone = <<>> =>
                          payload.message =
                              Placeholder(KindOfContentType(m.attachments[1].content_type))
                    /\ alone # <<>> => payload.message = alone[1].user_message
                    /\ Len(payload.attachments) = Len(m.attachments)
                    /\ \A k \in 1..Len(m.attachments) :
                          /\ payload.attachments[k].filename = m.attachments[k].filename
                          /\ payload.attachments[k].url = m.attachments[k].url

C16_Witness ==
    /\ pipe[1].outcome = "Prepared"
    /\ pipe[1].msg[1].content = "<@42>" /\ pipe[1].msg[1].mentions_bot
    /\ Len(pipe[1].msg[1].attachments) = 2
    /\ pipe[1].msg[1].attachments[1].content_type = <<"image/png">>
    /\ pipe[1].msg[1].attachments[2].content_type = <<"audio/ogg">>
    /\ pipe[1].log[1].payload.message = "[Imagen enviada]"

(***************************************************************************)
(* C17.  As claimed: every relay-routed message and every status command   *)
(* that runs performs one flag request of its own, and what it does        *)
(* follows the answer to that request (the reply's `enabled`, true when    *)
(* the request failed): the relay is suppressed or goes on, status reports *)
(* disabled or enabled.  Without an HTTP session (before on_ready), and on *)
(* a closed one, is_bot_enabled returns True and no request is made.       *)
(***************************************************************************)
GateRuns(p) ==
    /\ Handling(p)
    /\ \/ Did(p, "process_message")
       \/ Did(p, "commands") /\ p.msg[1].content = "!status" /\ p.outcome # "Cooldown"

GateAnswer(o) ==
    IF /\ o.kind = "response" /\ o.status = 200
       /\ o.json # <<>> /\ IsDict(o.json[1]) /\ HasKey(o.json[1], "enabled")
    THEN Lookup(o.json[1], "enabled")
    ELSE JBool(TRUE)

FollowsOwnAnswer(p) ==
    (p.flag_outcome # <<>> /\ p.bot_enabled # <<>>) =>
        /\ p.bot_enabled = <<GateAnswer(p.flag_outcome[1])>>
        /\ IF Did(p, "commands")
           THEN Sends(p) = <<IF Truthy(p.bot_enabled[1]) THEN StatusOn ELSE StatusOff>>
           ELSE (p.outcome = "Suppressed") <=> ~Truthy(p.bot_enabled[1])

C17_AsClaimed ==
    \A s \in Slots :
        LET p == pipe[s] IN
        GateRuns(p) =>
            /\ Count(p, "flag_get") = 1
            /\ FollowsOwnAnswer(p)

(***************************************************************************)
(* C17, amended.  The flag decision is never cached.  A relay-routed       *)
(* message or a status command that starts while the HTTP session is open  *)
(* issues one flag request of its own and decides nothing before the       *)
(* answer; when the answer arrives the task follows it, whatever other     *)
(* tasks were answered before or meanwhile.  A task that starts without an *)
(* open session (before on_ready, after on_close) issues no flag request   *)
(* and goes on as enabled.                                                 *)
(***************************************************************************)
C17_FreshStep ==
    \A s \in Slots :
        LET p == pipe[s]
            q == pipe'[s]
        IN  /\ (p.pc = "idle" /\ GateRuns(q)) =>
                  IF http_session \in open_sessions
                  THEN /\ q.pc \in {"flag_wait", "status_wait"}
                       /\ Count(q, "flag_get") = 1
                       /\ q.bot_enabled = <<>> /\ Sends(q) = <<>>
                  ELSE /\ Count(q, "flag_get") = 0
                       /\ q.bot_enabled = <<JBool(TRUE)>>
            /\ (p.pc \in {"flag_wait", "status_wait"} /\ q.pc # p.pc) =>
                  /\ q.flag_outcome # <<>>
                  /\ Count(q, "flag_get") = 1
                  /\ FollowsOwnAnswer(q)

C17_Fresh == [][C17_FreshStep]_vars

C17_Witness ==
    /\ pipe[1].outcome = "Suppressed"
    /\ Count(pipe[1], "flag_get") = 1
    /\ pipe[1].bot_enabled = <<JBool(FALSE)>>
    /\ pipe[2].pc = "typing_wait"
    /\ Count(pipe[2], "flag_get") = 1
    /\ pipe[2].bot_enabled = <<JBool(TRUE)>>
    /\ pipe[2].flag_outcome # <<>> /\ pipe[2].flag_outcome[1].kind = "response"

(***************************************************************************)
(* C18.  As claimed: the pipeline of a relay-routed message only moves     *)
(* forward.  The gate is checked before the content is validated; the      *)
(* webhook is called only after the gate returned enabled and validation   *)
(* succeeded; a reply or an error text is sent only after the webhook call *)
(* returned; and the pipeline ends in one terminal outcome: Suppressed,    *)
(* Prompted, ErrorReported or Responded (the Respond step ran to its end:  *)
(* the reply was delivered, found empty and notified, or was a system      *)
(* message and dropped).  The order holds; the end fails on the replies on *)
(* which handle_webhook_response raises (C19): the task ends by the        *)
(* exception, in none of the outcomes.                                     *)
(***************************************************************************)
Position(p, e) == CHOOSE i \in 1..Len(p.log) : p.log[i].e = e

TerminalOutcome(p) ==
    CASE p.outcome = "Suppressed" -> "Suppressed"
      [] p.outcome = "Prompted" -> "Prompted"
      [] p.outcome = "ErrorReported" -> "ErrorReported"
      [] p.outcome \in {"Responded", "EmptyNotified", "SystemSuppressed"} -> "Responded"
      [] OTHER -> "none"

C18_Forward ==
    \A s \in Slots :
        LET p == pipe[s] IN
        (Handling(p) /\ Did(p, "process_message")) =>
            /\ p.log[1].e = "process_message"
            /\ Did(p, "flag_get") => Position(p, "flag_get") = 2
            /\ p.prepared # <<>> => p.bot_enabled # <<>> /\ Truthy(p.bot_enabled[1])
            /\ Did(p, "typing") =>
                  /\ p.bot_enabled # <<>> /\ Truthy(p.bot_enabled[1])
                  /\ p.prepared # <<>>
                  /\ Did(p, "flag_get") => Position(p, "flag_get") < Position(p, "typing")
            /\ Did(p, "post") =>
                  /\ Did(p, "typing") /\ Position(p, "typing") < Position(p, "post")
                  /\ p.log[Position(p, "post")].payload.message = p.prepared[1].user_message
            /\ \A i \in 1..Len(p.log) :
                  (p.log[i].e = "send" /\ p.log[i].text \notin {DisabledNotice, HelpPrompt}) =>
                      /\ Did(p, "typing") /\ Position(p, "typing") < i
                      /\ Did(p, "post") => Position(p, "post") < i /\ p.webhook_outcome # <<>>
                      /\ p.response_data # <<>>
            /\ p.outcome = "Suppressed" => Sends(p) = <<DisabledNotice>> /\ ~Did(p, "typing")
            /\ p.outcome = "Prompted" => Sends(p) = <<HelpPrompt>> /\ ~Did(p, "typing")
            /\ p.pc = "done" =>
                  TerminalOutcome(p) \in {"Suppressed", "Prompted", "ErrorReported", "Responded"}

(***************************************************************************)
(* C19.  As claimed: for every decoded 200 reply, an object, an array or a *)
(* scalar, handle_webhook_response ends in exactly one of: the error       *)
(* notice, the empty-response notice, silent suppression, or the delivery  *)
(* of the extracted text in chunks; and only a reply with an `error` field *)
(* is reported as an error.  `"error" in response_data` raises TypeError   *)
(* on a number, a boolean and null, and response_data.get raises           *)
(* AttributeError on a string or an array that contains "error": the task  *)
(* ends by the exception and the user gets nothing.                        *)
(***************************************************************************)
DecodedReply(p) ==
    /\ p.webhook_outcome # <<>>
    /\ p.webhook_outcome[1].kind = "response"
    /\ p.webhook_outcome[1].status = 200
    /\ p.webhook_outcome[1].json # <<>>

C19_EveryShapeHandled ==
    \A s \in Slots :
        LET p == pipe[s] IN
        (DecodedReply(p) /\ p.response_data # <<>>) =>
            LET d == p.response_data[1]
                text == extract_response_text(d)
                reported == IsDict(d) /\ HasKey(d, "error")
            IN  /\ p.pc = "chunk_sleep"
                   \/ p.outcome \in {"ErrorReported", "EmptyNotified",
                                     "SystemSuppressed", "Responded"}
                /\ p.outcome = "ErrorReported" <=> (p.pc = "done" /\ reported)
                /\ p.outcome = "ErrorReported" =>
                      Len(Sends(p)) = 1 /\ StartsWith(Sends(p)[1], ErrorPrefix)
                /\ p.outcome = "EmptyNotified" => text = "" /\ Sends(p) = <<EmptyNotice>>
                /\ p.outcome = "SystemSuppressed" =>
                      text \in SYSTEM_MESSAGES /\ Sends(p) = <<>>
                /\ p.outcome = "Responded" => Concat(Sends(p)) = text

(***************************************************************************)
(* C20.  As claimed: there is a single HTTP client.  At any time at most   *)
(* one client is open (opened and not closed); the close event leaves no   *)
(* client open that a ready event opened; and no request (flag GET,        *)
(* webhook POST) is issued on a client that is closed.  on_ready opens a   *)
(* new ClientSession each time it runs and drops the one it replaces       *)
(* without closing it, and on_close closes only the one the global names.  *)
(***************************************************************************)
IsRequest(ev) == ev.e \in {"flag_get", "post"}

CloseStep == open_sessions' # open_sessions /\ http_session' = http_session

C20_Step ==
    /\ CloseStep => open_sessions' = {}
    /\ \A s \in Slots :
          \A i \in 1..Len(pipe'[s].log) :
              (IsRequest(pipe'[s].log[i]) /\ (pipe[s].pc = "idle" \/ i > Len(pipe[s].log))) =>
                  pipe'[s].log[i].session \in open_sessions

C20_SingleClient ==
    /\ [](Cardinality(open_sessions) <= 1)
    /\ [][C20_Step]_vars

(***************************************************************************)
(* C21.  As claimed: the message text of every payload posted to the       *)
(* webhook is normalized: it contains neither "<@id>" nor "<@!id>" for the *)
(* bot's id, has no whitespace at either end and no two whitespace         *)
(* characters in a row; and a message without attachments whose text is    *)
(* empty once normalized gets the help prompt and no webhook call.         *)
(* validate_and_prepare_message cleans the text only when the bot is       *)
(* mentioned (a DM without a mention is posted as typed: "hola  mundo"),   *)
(* and the two replacements run one after the other, so removing the       *)
(* second form can put the first together: "<@<@!id>id> hola".             *)
(***************************************************************************)
HasWhitespaceRun(text) ==
    \E i \in 1..(Len(text) - 1) :
        CharAt(text, i) \in Whitespace /\ CharAt(text, i + 1) \in Whitespace

Normalized(text) ==
    /\ ~Contains(text, PlainMention)
    /\ ~Contains(text, NickMention)
    /\ Len(text) > 0 => CharAt(text, 1) \notin Whitespace
                        /\ CharAt(text, Len(text)) \notin Whitespace
    /\ ~HasWhitespaceRun(text)

C21_Normalized ==
    \A s \in Slots :
        LET p == pipe[s] IN
        /\ \A i \in 1..Len(p.log) :
              p.log[i].e = "post" => Normalized(p.log[i].payload.message)
        /\ ( /\ Handling(p) /\ Did(p, "process_message")
             /\ p.bot_enabled # <<>> /\ Truthy(p.bot_enabled[1])
             /\ p.msg[1].attachments = <<>>
             /\ clean_mention_from_message(p.msg[1].content) = "" ) =>
                /\ p.outcome = "Prompted"
                /\ Sends(p) = <<HelpPrompt>>
                /\ ~Did(p, "post")

(***************************************************************************)
(* C22.  As claimed: every chat message sent in response to a webhook      *)
(* outcome (a chunk of the reply, the error notice, the empty-response     *)
(* notice) has at most DISCORD_MESSAGE_LIMIT characters.                   *)
(* handle_webhook_response sends the error notice in one channel.send, the *)
(* text of the reply's "error" value after the prefix, without chunking:   *)
(* an error value of DISCORD_MESSAGE_LIMIT characters gives a notice of    *)
(* DISCORD_MESSAGE_LIMIT + 28.                                             *)
(***************************************************************************)
C22_WithinLimit ==
    \A s \in Slots :
        LET p == pipe[s] IN
        p.response_data # <<>> =>
            \A i \in 1..Len(Sends(p)) : Len(Sends(p)[i]) <= DISCORD_MESSAGE_LIMIT

(***************************************************************************)
(* C23.  A relay wait does not block other events.  While one task is      *)
(* suspended on the webhook reply or asleep between two chunks, the other  *)
(* task can take its next step whatever that is (a message can arrive, a   *)
(* reply can be handled, a chunk can be sent), so it can run to its        *)
(* outcome; a step of a task changes nothing of the other task and leaves  *)
(* the HTTP client as it is (the tasks only read http_session); and what a *)
(* task has sent of its reply is the chunks of that reply in their order,  *)
(* one after the other, whatever the other task did meanwhile.  So a reply *)
(* can overtake another: C23_Witness is a state where the message that     *)
(* arrived second has its reply delivered while the first still waits.     *)
(***************************************************************************)
Suspended(p) == p.pc \in {"webhook_wait", "chunk_sleep"}

TaskStep(s) ==
    \/ \E m \in ConcMessages, cd \in BOOLEAN, ms \in Latencies : OnMessage(s, m, cd, ms)
    \/ \E o \in ConcFlagOutcomes : FlagReply(s, o)
    \/ \E o \in ConcFlagOutcomes : StatusFlagReply(s, o)
    \/ TypingStarted(s)
    \/ \E o \in ConcWebhookOutcomes : WebhookReply(s, o)
    \/ ChunkWake(s)
    \/ TaskEnd(s)

C23_NotBlocked ==
    \A s \in Slots, t \in Slots :
        (s # t /\ Suspended(pipe[s])) => ENABLED TaskStep(t)

C23_OwnOrder ==
    \A s \in Slots :
        LET p == pipe[s] IN
        p.chunks # <<>> =>
            /\ p.chunks = Chunks(p.response_text[1])
            /\ p.sent_chunks \in 1..Len(p.chunks)
            /\ Sends(p) = SubSeq(p.chunks, 1, p.sent_chunks)
            /\ p.outcome = "Responded" => p.sent_chunks = Len(p.chunks)

C23_Step ==
    \A s \in Slots :
        pipe'[s] # pipe[s] =>
            /\ \A t \in Slots \ {s} : pipe'[t] = pipe[t]
            /\ http_session' = http_session
            /\ open_sessions' = open_sessions

C23_Concurrent ==
    /\ [](C23_NotBlocked /\ C23_OwnOrder)
    /\ [][C23_Step]_vars

\* The task's message arrived while session n was the client: the flag
\* request is issued as the message arrives, and sessions are numbered in the
\* order on_ready opened them.
ArrivedUnder(p, n) ==
    \E i \in 1..Len(p.log) : p.log[i].e = "flag_get" /\ p.log[i].session = n

\* The second message's reply is complete while the first message still waits
\* for its webhook reply, or has sent one of its two chunks.
C23_Witness ==
    /\ ArrivedUnder(pipe[1], 1)
    /\ ArrivedUnder(pipe[2], 2)
    /\ pipe[2].outcome = "Responded"
    /\ \/ pipe[1].pc = "webhook_wait" /\ Sends(pipe[1]) = <<>>
       \/ /\ pipe[1].pc = "chunk_sleep"
          /\ pipe[1].sent_chunks = 1 /\ Len(pipe[1].chunks) = 2
          /\ Len(Sends(pipe[2])) = 2

(***************************************************************************)
(* C24.  While no HTTP client has been opened (no ready event yet), no     *)
(* request is issued: no task has a flag GET or a webhook POST in its log  *)
(* or waits for the answer of one.  is_bot_enabled returns True (the relay *)
(* goes on as enabled, the status command reports enabled), and            *)
(* send_to_webhook returns its error object: a relay-routed message that   *)
(* has content ends with one message to the user, the error notice.        *)
(* (A ready event that comes while the task waits on the typing indicator  *)
(* opens a client, and the claim's case is over: send_to_webhook posts.)   *)
(***************************************************************************)
NoSessionError == ErrorDict("Sesion HTTP no disponible")

C24_NoClientNoRequest ==
    http_session = 0 =>
        \A s \in Slots :
            LET p == pipe[s] IN
            /\ \A i \in 1..Len(p.log) : ~IsRequest(p.log[i])
            /\ p.pc \notin {"flag_wait", "status_wait", "webhook_wait"}
            /\ (Did(p, "process_message") /\ p.outcome # "Filtered") =>
                    p.bot_enabled = <<JBool(TRUE)>>
            /\ ( /\ Handling(p) /\ Did(p, "commands") /\ p.outcome = "Command"
                 /\ CommandName(p.msg[1].content) = "status" ) =>
                    p.bot_enabled = <<JBool(TRUE)>> /\ Sends(p) = <<StatusOn>>
            /\ ( /\ Handling(p) /\ Did(p, "process_message") /\ p.pc = "done"
                 /\ validate_and_prepare_message(p.msg[1]) # <<>> ) =>
                    /\ p.response_data = <<NoSessionError>>
                    /\ p.outcome = "ErrorReported"
                    /\ Sends(p) = <<ErrorPrefix \o "Sesion HTTP no disponible">>

C24_Witness ==
    /\ http_session = 0
    /\ pipe[1].pc = "done" /\ pipe[1].outcome = "ErrorReported"
    /\ Did(pipe[1], "process_message") /\ Did(pipe[1], "typing")
    /\ pipe[1].msg[1].content = "hola"
    /\ Sends(pipe[1]) = <<ErrorPrefix \o "Sesion HTTP no disponible">>

=============================================================================
